---- MODULE Spec2Model ----
(***************************************************************************)
(* Model of the gRPC demo calculator (server.py and its caller             *)
(* client.py).  client_multi.py issues 100 Add calls one after the other   *)
(* and prints latency statistics: it has no call in flight while another   *)
(* runs and is not modelled.                                               *)
(*                                                                         *)
(* The module holds five state machines over one set of variables:         *)
(*   UnarySpec     - one unary call (Add, Subtract, Multiply, Power,       *)
(*                   Divide) from request to outcome;                      *)
(*   FactorialSpec - one server-streaming Factorial call with its caller   *)
(*                   (deadline, cancellation, transport);                  *)
(*   StatsSpec     - one client-streaming DescriptiveStats call;           *)
(*   PoolSpec      - the ThreadPoolExecutor(max_workers=8) serving N calls;*)
(*   ServeSpec     - serve(): bootstrap, termination and shutdown.         *)
(* Each specification leaves the variables of the others at their initial  *)
(* values.                                                                 *)
(*                                                                         *)
(* Integer message fields are protobuf integers of a fixed width: the      *)
(* generated module calculator_pb2 is not among the sources, so the width  *)
(* is a parameter (FieldBits), scaled down so that the boundary values are *)
(* reached.  The Python protobuf runtime raises ValueError when a field is *)
(* given an integer outside its range and TypeError when it is given a     *)
(* float; gRPC turns an exception that escapes a handler into the status   *)
(* UNKNOWN.                                                                *)
(***************************************************************************)
EXTENDS Integers, Sequences, FiniteSets

VARIABLES
    \* ---- one unary call
    method,      \* the RPC invoked, "None" before the call
    req,         \* the request message
    pc,          \* position of the handler
    status,      \* the status the call ended with, "NONE" while it runs
    reply,       \* the reply message the handler constructed, NoReply if none
    \* ---- one Factorial call
    fn,          \* req.n
    fpc,         \* position of the generator
    acc,         \* local acc
    fk,          \* local k
    yielded,     \* the FactorialStep messages the generator yielded
    transmitted, \* the FactorialStep messages the worker sent
    delivered,   \* the FactorialStep messages the caller received
    fcode,       \* the status the handler ended with, "NONE" if it has not
    fstatus,     \* the outcome the caller observes, "NONE" while streaming
    active,      \* the server sees the RPC active (not cancelled, not expired)
    clock,       \* time since the call was issued, in units of PaceMs
    workerHeld,  \* the pool worker is running this call
    \* ---- one DescriptiveStats call
    sent,        \* the samples the caller has written to the request stream
    closed,      \* the caller has signalled end-of-input
    vals,        \* local vals
    spc,         \* position of the handler
    sstatus,     \* the status the call ended with
    sreply,      \* the StatsReply the handler constructed, NoReply if none
    \* ---- the worker pool
    arrived,     \* calls the server has submitted to the executor
    queue,       \* work items in executor._work_queue
    submitPc,    \* position of submit(): "idle", "adjust", "add"
    threads,     \* len(executor._threads)
    idleSem,     \* executor._idle_semaphore
    busy,        \* threads that hold a work item
    running,     \* per handler state: the handlers in it
    returned,    \* work items whose handler is over, semaphore not yet released
    finished,    \* work items done
    interfered,  \* a handler sent something that is not the reply to its request
    \* ---- serve()
    servePc,     \* position of serve()
    accepting,   \* the server accepts new calls
    inflight,    \* per call slot: "free", "running", "finished", "killed"
    graceLeft,   \* seconds left of the grace period; -1 before any, -2 once over
    closedSaid   \* "Server closed." has been printed

vars == << method, req, pc, status, reply,
           fn, fpc, acc, fk, yielded, transmitted, delivered, fcode, fstatus,
           active, clock, workerHeld,
           sent, closed, vals, spc, sstatus, sreply,
           arrived, queue, submitPc, threads, idleSem, busy, running,
           returned, finished, interfered,
           servePc, accepting, inflight, graceLeft, closedSaid >>

unaryVars == << method, req, pc, status, reply >>
factVars  == << fn, fpc, acc, fk, yielded, transmitted, delivered, fcode,
               fstatus, active, clock, workerHeld >>
statsVars == << sent, closed, vals, spc, sstatus, sreply >>
poolVars  == << arrived, queue, submitPc, threads, idleSem, busy, running,
               returned, finished, interfered >>
serveVars == << servePc, accepting, inflight, graceLeft, closedSaid >>

notUnary == << factVars, statsVars, poolVars, serveVars >>
notFact  == << unaryVars, statsVars, poolVars, serveVars >>
notStats == << unaryVars, factVars, poolVars, serveVars >>
notPool  == << unaryVars, factVars, statsVars, serveVars >>
notServe == << unaryVars, factVars, statsVars, poolVars >>

(***************************************************************************)
(* Bounds of the model.                                                    *)
(***************************************************************************)
FieldBits == 4          \* width of an integer message field, scaled down
MaxExp == 3             \* exponents are drawn from -MaxExp..MaxExp
MaxSamples == 3         \* samples a caller sends at most
FloatMax == 2           \* the largest finite float, scaled down
NumCalls == 9           \* calls issued to the pool (more than max_workers)
PoolMaxN == 1           \* the largest n of a Factorial call to the pool
PoolMaxSamples == 1     \* samples a DescriptiveStats call to the pool sends at most
NumSlots == 2           \* calls in flight when serve() is shut down

(***************************************************************************)
(* Program constants.                                                      *)
(***************************************************************************)
MaxWorkers == 8         \* futures.ThreadPoolExecutor(max_workers=8)
GraceSec == 5           \* server.stop(grace=5)
TIMEOUT_SEC == 2        \* client.py TIMEOUT_SEC
PaceMs == 50            \* time.sleep(0.05)

(***************************************************************************)
(* Protobuf messages (calculator_pb2).                                     *)
(***************************************************************************)
RECURSIVE Pow2(_)
Pow2(b) == IF b = 0 THEN 1 ELSE 2 * Pow2(b - 1)

IntMin == -Pow2(FieldBits - 1)
IntMax == Pow2(FieldBits - 1) - 1
FieldInts == IntMin..IntMax

\* A Python value: an int, a float, or the exception the expression raised.
PyInt(v) == [kind |-> "int", val |-> v]
PyFloat == [kind |-> "float", val |-> 0]
PyRaise(e) == [kind |-> e, val |-> 0]

NoReply == [kind |-> "none"]

\* Setting an integer field: "ok", or the exception the runtime raises.
\* (An operand that raised propagates its own exception.)
SetIntField(v) ==
    IF v.kind # "int" THEN (IF v.kind = "float" THEN "TypeError" ELSE v.kind)
    ELSE IF v.val < IntMin \/ v.val > IntMax THEN "ValueError"
    ELSE "ok"

\* pb.BinaryReply(result=v)
BinaryReply(v) ==
    IF SetIntField(v) = "ok" THEN [kind |-> "BinaryReply", result |-> v.val]
    ELSE [kind |-> "raise", exc |-> SetIntField(v)]

\* pb.DivideReply(quotient=q, remainder=r)
DivideReply(q, r) ==
    IF SetIntField(q) # "ok" THEN [kind |-> "raise", exc |-> SetIntField(q)]
    ELSE IF SetIntField(r) # "ok" THEN [kind |-> "raise", exc |-> SetIntField(r)]
    ELSE [kind |-> "DivideReply", quotient |-> q.val, remainder |-> r.val]

(***************************************************************************)
(* Python integer arithmetic.                                              *)
(***************************************************************************)
\* x // y: the floor of x / y; ZeroDivisionError when y = 0.
PyFloorDiv(x, y) ==
    IF y = 0 THEN PyRaise("ZeroDivisionError")
    ELSE IF y > 0 THEN PyInt(x \div y)
    ELSE PyInt((-x) \div (-y))

\* x % y: zero, or of the sign of y; ZeroDivisionError when y = 0.
PyMod(x, y) ==
    IF y = 0 THEN PyRaise("ZeroDivisionError")
    ELSE IF y > 0 THEN PyInt(x % y)
    ELSE PyInt(-((-x) % (-y)))

RECURSIVE IntPow(_, _)
IntPow(b, e) == IF e = 0 THEN 1 ELSE b * IntPow(b, e - 1)

\* pow(base, exponent) of two ints.
PyPow(b, e) ==
    IF e >= 0 THEN PyInt(IntPow(b, e))
    ELSE IF b = 0 THEN PyRaise("ZeroDivisionError")
    ELSE PyFloat

(***************************************************************************)
(* Initial values of the five groups of variables.                         *)
(***************************************************************************)
NoRequest == [kind |-> "none"]

UnaryIdle ==
    /\ method = "None"
    /\ req = NoRequest
    /\ pc = "idle"
    /\ status = "NONE"
    /\ reply = NoReply

FactIdle ==
    /\ fn = 0
    /\ fpc = "idle"
    /\ acc = 0
    /\ fk = 0
    /\ yielded = << >>
    /\ transmitted = << >>
    /\ delivered = << >>
    /\ fcode = "NONE"
    /\ fstatus = "NONE"
    /\ active = FALSE
    /\ clock = 0
    /\ workerHeld = FALSE

StatsIdle ==
    /\ sent = << >>
    /\ closed = FALSE
    /\ vals = << >>
    /\ spc = "idle"
    /\ sstatus = "NONE"
    /\ sreply = NoReply

\* The requests a call to the pool carries: an Add within the field range
\* or one whose sum is beyond it, a Factorial of PoolMaxN, or the stream of
\* up to PoolMaxSamples samples of a DescriptiveStats call (each sample of
\* the value v).  What each handler does for every request is the subject of
\* UnarySpec, FactorialSpec and StatsSpec.
PoolRequests ==
    { [kind |-> "BinaryRequest", x |-> x, y |-> 1] : x \in {1, IntMax} } \cup
    { [kind |-> "UnaryRequest", n |-> PoolMaxN] } \cup
    { [kind |-> "SampleValues", v |-> 1] }

IsStream(r) == r.kind = "UnaryRequest"

IsStats(r) == r.kind = "SampleValues"

\* A handler at work: its request and the elements it has emitted (Factorial)
\* or the samples it has read (DescriptiveStats).
PoolHandlers ==
    UNION { { [req |-> r, prog |-> p] :
                p \in 0..(IF IsStats(r) THEN PoolMaxSamples
                          ELSE IF IsStream(r) /\ r.n >= 0 THEN r.n + 1
                          ELSE 0) } :
            r \in PoolRequests }

PoolIdle ==
    /\ arrived = 0
    /\ queue = 0
    /\ submitPc = "idle"
    /\ threads = 0
    /\ idleSem = 0
    /\ busy = 0
    /\ running = [h \in PoolHandlers |-> 0]
    /\ returned = 0
    /\ finished = 0
    /\ interfered = FALSE

Slots == 1..NumSlots

ServeIdle ==
    /\ servePc = "init"
    /\ accepting = FALSE
    /\ inflight = [s \in Slots |-> "free"]
    /\ graceLeft = -1
    /\ closedSaid = FALSE

(***************************************************************************)
(* UnarySpec: CalculatorServicer.Add / Subtract / Multiply / Power /       *)
(* Divide.                                                                 *)
(***************************************************************************)
BinaryMethods == {"Add", "Subtract", "Multiply", "Divide"}

\* stub.<m>(pb.BinaryRequest(x=a, y=b)) and stub.Power(pb.PowerRequest(...)):
\* the caller issues the call and the handler is entered.
Call(m, a, b) ==
    /\ pc = "idle"
    /\ method' = m
    /\ req' = IF m = "Power"
              THEN [kind |-> "PowerRequest", base |-> a, exponent |-> b]
              ELSE [kind |-> "BinaryRequest", x |-> a, y |-> b]
    /\ pc' = "entered"
    /\ UNCHANGED << status, reply, notUnary >>

\* The handler returns res, or the exception raised while res was built
\* escapes it (status UNKNOWN, no reply).
Finish(res) ==
    /\ pc' = "done"
    /\ IF res.kind = "raise"
       THEN status' = "UNKNOWN" /\ reply' = NoReply
       ELSE status' = "OK" /\ reply' = res
    /\ UNCHANGED << method, req, notUnary >>

\* ctx.abort(code, details): raises, the call ends with code and no reply.
Abort(code) ==
    /\ pc' = "done"
    /\ status' = code
    /\ reply' = NoReply
    /\ UNCHANGED << method, req, notUnary >>

Add ==
    /\ pc = "entered" /\ method = "Add"
    /\ Finish(BinaryReply(PyInt(req.x + req.y)))

Subtract ==
    /\ pc = "entered" /\ method = "Subtract"
    /\ Finish(BinaryReply(PyInt(req.x - req.y)))

Multiply ==
    /\ pc = "entered" /\ method = "Multiply"
    /\ Finish(BinaryReply(PyInt(req.x * req.y)))

Power ==
    /\ pc = "entered" /\ method = "Power"
    /\ Finish(BinaryReply(PyPow(req.base, req.exponent)))

\* A Divide whose zero check is missing (mutant of DivideCheck).
DivideCheckMissing ==
    /\ pc = "entered" /\ method = "Divide"
    /\ pc' = "compute"
    /\ UNCHANGED << method, req, status, reply, notUnary >>

\* Divide, lines 85-89: the zero check.
DivideCheck ==
    /\ pc = "entered" /\ method = "Divide"
    /\ IF req.y = 0
       THEN Abort("INVALID_ARGUMENT")
       ELSE pc' = "compute" /\ UNCHANGED << method, req, status, reply, notUnary >>

\* Divide, lines 90-92: quotient, remainder and the reply.
DivideCompute ==
    /\ pc = "compute" /\ method = "Divide"
    /\ Finish(DivideReply(PyFloorDiv(req.x, req.y), PyMod(req.x, req.y)))

UnaryInit == UnaryIdle /\ FactIdle /\ StatsIdle /\ PoolIdle /\ ServeIdle

UnaryNext ==
    \/ \E m \in BinaryMethods, a \in FieldInts, b \in FieldInts : Call(m, a, b)
    \/ \E a \in FieldInts, b \in (-MaxExp)..MaxExp : Call("Power", a, b)
    \/ Add
    \/ Subtract
    \/ Multiply
    \/ Power
    \/ DivideCheck
    \/ DivideCompute

UnarySpec == UnaryInit /\ [][UnaryNext]_vars

(***************************************************************************)
(* Properties of the unary calls.                                          *)
(***************************************************************************)
\* C1: a Divide(x, 0) call never gets past the zero check (quotient and
\* remainder are never computed, no DivideReply is ever constructed) and it
\* ends with the status INVALID_ARGUMENT.
DivideByZeroAborts ==
    (method = "Divide" /\ req.y = 0) =>
        /\ reply = NoReply
        /\ pc # "compute"
        /\ status \in {"NONE", "INVALID_ARGUMENT"}
        /\ (pc = "done" => status = "INVALID_ARGUMENT")

\* C1 witness: a Divide(x, 0) call that has ended INVALID_ARGUMENT.
DivideByZeroAborted ==
    /\ method = "Divide" /\ req.y = 0
    /\ pc = "done" /\ status = "INVALID_ARGUMENT" /\ reply = NoReply

Abs(v) == IF v < 0 THEN -v ELSE v

\* C2: every Divide(x, y) with y # 0 succeeds with quotient*y + remainder = x,
\* the remainder being zero or of the sign of y and smaller than y in
\* magnitude (floor division).
DivideFloorContract ==
    (method = "Divide" /\ pc = "done" /\ req.y # 0) =>
        /\ status = "OK"
        /\ reply.kind = "DivideReply"
        /\ reply.quotient * req.y + reply.remainder = req.x
        /\ Abs(reply.remainder) < Abs(req.y)
        /\ (reply.remainder = 0 \/ (reply.remainder < 0) = (req.y < 0))

\* What Divide does hold to: the floor-division contract whenever the call
\* succeeds, and it succeeds unless the quotient is outside the reply field.
DivideFloorWhenRepresentable ==
    (method = "Divide" /\ pc = "done" /\ req.y # 0) =>
        IF req.x = IntMin /\ req.y = -1
        THEN status = "UNKNOWN" /\ reply = NoReply
        ELSE /\ status = "OK"
             /\ reply.quotient * req.y + reply.remainder = req.x
             /\ Abs(reply.remainder) < Abs(req.y)
             /\ (reply.remainder = 0 \/ (reply.remainder < 0) = (req.y < 0))

\* C6: Power(base, exponent) with exponent < 0 fails INVALID_ARGUMENT with no
\* reply; with exponent >= 0 it returns result = base^exponent.
PowerContract ==
    (method = "Power" /\ pc = "done") =>
        IF req.exponent < 0
        THEN status = "INVALID_ARGUMENT" /\ reply = NoReply
        ELSE /\ status = "OK"
             /\ reply.kind = "BinaryReply"
             /\ reply.result = IntPow(req.base, req.exponent)

\* C7: Add, Subtract and Multiply always succeed and return x+y, x-y, x*y,
\* for all request values, also when the exact result is outside the range
\* of the reply's field.
BinaryOpsAlwaysSucceed ==
    (method \in {"Add", "Subtract", "Multiply"} /\ pc = "done") =>
        /\ status = "OK"
        /\ reply.kind = "BinaryReply"
        /\ reply.result = (CASE method = "Add" -> req.x + req.y
                             [] method = "Subtract" -> req.x - req.y
                             [] method = "Multiply" -> req.x * req.y)

\* What the three do hold to: the exact result when it fits the reply field,
\* the status UNKNOWN and no reply when it does not.
BinaryOpsWhenRepresentable ==
    (method \in {"Add", "Subtract", "Multiply"} /\ pc = "done") =>
        LET exact == CASE method = "Add" -> req.x + req.y
                       [] method = "Subtract" -> req.x - req.y
                       [] method = "Multiply" -> req.x * req.y
        IN  IF exact \in FieldInts
            THEN status = "OK" /\ reply.result = exact
            ELSE status = "UNKNOWN" /\ reply = NoReply

(***************************************************************************)
(* FactorialSpec: CalculatorServicer.Factorial, a generator run by a pool  *)
(* worker, and its caller (client.py, choice 6).                           *)
(*                                                                         *)
(* The worker calls next() on the generator, sends what it yields while    *)
(* it sees the RPC active and calls next() again; it stops iterating once  *)
(* it sees the RPC no longer active and when the generator ends or raises. *)
(* The caller cancels, or runs into its deadline, on its side: it has its  *)
(* outcome at once and receives nothing more.  The server sees the RPC     *)
(* inactive later, when the cancellation has arrived or its own timer for  *)
(* the deadline (set from the timeout the call carries, on receipt) has    *)
(* fired; until then the worker goes on sending.  Time is counted in units *)
(* of the handler's pause (PaceMs): the caller's deadline of TIMEOUT_SEC   *)
(* seconds is DeadlineTicks units.                                         *)
(***************************************************************************)
DeadlineTicks == (TIMEOUT_SEC * 1000) \div PaceMs

\* pb.FactorialStep(step=k, accumulator=a)
FactorialStepMsg(k, a) ==
    IF SetIntField(PyInt(k)) # "ok" THEN [kind |-> "raise", exc |-> SetIntField(PyInt(k))]
    ELSE IF SetIntField(PyInt(a)) # "ok" THEN [kind |-> "raise", exc |-> SetIntField(PyInt(a))]
    ELSE [kind |-> "FactorialStep", step |-> k, accumulator |-> a]

\* for step in stub.Factorial(pb.UnaryRequest(n=n), timeout=TIMEOUT_SEC):
\* the call is issued, a worker takes it and creates the generator.
FactCall(n) ==
    /\ fpc = "idle"
    /\ fn' = n
    /\ fpc' = "start"
    /\ active' = TRUE
    /\ workerHeld' = TRUE
    /\ clock' = 0
    /\ UNCHANGED << acc, fk, yielded, transmitted, delivered, fcode, fstatus, notFact >>

\* The generator is over (it returned, raised or was dropped): the handler's
\* status goes to the caller if the server sees the RPC active and the caller
\* has no outcome yet; the worker is free.
FactEnd(code) ==
    /\ fpc' = "done"
    /\ fcode' = code
    /\ workerHeld' = FALSE
    /\ active' = FALSE
    /\ fstatus' = IF active /\ code # "NONE" /\ fstatus = "NONE" THEN code
                  ELSE fstatus

\* A Factorial without the n < 0 check (mutant of FactorialEnter).
FactorialEnterNoCheck ==
    /\ fpc = "start"
    /\ acc' = 1 /\ fk' = 0 /\ fpc' = "loop"
    /\ UNCHANGED << fn, yielded, transmitted, delivered, fcode, fstatus, active, clock,
                    workerHeld, notFact >>

\* Factorial, lines 97-104: first next(), up to the loop.
FactorialEnter ==
    /\ fpc = "start"
    /\ IF fn < 0
       THEN /\ FactEnd("INVALID_ARGUMENT")
            /\ UNCHANGED << fn, acc, fk, yielded, transmitted, delivered, clock, notFact >>
       ELSE /\ acc' = 1 /\ fk' = 0 /\ fpc' = "loop"
            /\ UNCHANGED << fn, yielded, transmitted, delivered, fcode, fstatus, active, clock,
                            workerHeld, notFact >>

\* A loop that starts over at k = 0 after the last element (mutant of
\* FactorialLoop).
FactorialLoopReplay ==
    /\ fpc = "loop"
    /\ LET k == IF fk > fn THEN 0 ELSE fk
           a == IF k = 0 THEN 1 ELSE acc * k
           step == FactorialStepMsg(k, a)
       IN  IF step.kind = "raise"
           THEN /\ FactEnd("UNKNOWN")
                /\ acc' = a /\ fk' = k
                /\ UNCHANGED << fn, yielded, transmitted, delivered, clock, notFact >>
           ELSE /\ acc' = a /\ fk' = k
                /\ yielded' = Append(yielded, step)
                /\ fpc' = "yield"
                /\ UNCHANGED << fn, transmitted, delivered, fcode, fstatus, active, clock,
                                workerHeld, notFact >>

\* Factorial, lines 105-109: one iteration of the loop up to its yield, or
\* the end of range(0, n + 1).
FactorialLoop ==
    /\ fpc = "loop"
    /\ IF fk > fn
       THEN /\ FactEnd("OK")
            /\ UNCHANGED << fn, acc, fk, yielded, transmitted, delivered, clock, notFact >>
       ELSE LET a == IF fk # 0 THEN acc * fk ELSE 1
                step == FactorialStepMsg(fk, a)
            IN  IF step.kind = "raise"
                THEN /\ FactEnd("UNKNOWN")
                     /\ acc' = a
                     /\ UNCHANGED << fn, fk, yielded, transmitted, delivered, clock, notFact >>
                ELSE /\ acc' = a
                     /\ yielded' = Append(yielded, step)
                     /\ fpc' = "yield"
                     /\ UNCHANGED << fn, fk, transmitted, delivered, fcode, fstatus, active,
                                     clock, workerHeld, notFact >>

\* The worker sends the yielded element if it sees the RPC active; the
\* caller receives it in the for loop (client.py:104-106) unless it has
\* cancelled or timed out.  If the worker sees the RPC inactive, it stops
\* iterating and drops the generator.
Transmit ==
    /\ fpc = "yield"
    /\ IF active
       THEN /\ transmitted' = Append(transmitted, yielded[Len(yielded)])
            /\ delivered' = IF fstatus = "NONE"
                            THEN Append(delivered, yielded[Len(yielded)])
                            ELSE delivered
            /\ fpc' = "sent"
            /\ UNCHANGED << fn, acc, fk, yielded, fcode, fstatus, active, clock,
                            workerHeld, notFact >>
       ELSE /\ FactEnd("NONE")
            /\ UNCHANGED << fn, acc, fk, yielded, transmitted, delivered, clock, notFact >>

\* After a send the worker calls next() again if it still sees the RPC active:
\* the generator resumes after its yield.
Resume ==
    /\ fpc = "sent"
    /\ IF active
       THEN /\ fpc' = "sleep"
            /\ UNCHANGED << fn, acc, fk, yielded, transmitted, delivered, fcode, fstatus, active,
                            clock, workerHeld, notFact >>
       ELSE /\ FactEnd("NONE")
            /\ UNCHANGED << fn, acc, fk, yielded, transmitted, delivered, clock, notFact >>

\* Factorial, line 110: time.sleep(0.05), then the next iteration (k moves
\* on).  The pause cannot run past the caller's deadline before the deadline
\* has fired.
Sleep ==
    /\ fpc = "sleep"
    /\ ~(fstatus = "NONE" /\ clock = DeadlineTicks)
    /\ clock' = IF fstatus = "NONE" THEN clock + 1 ELSE clock
    /\ fk' = fk + 1
    /\ fpc' = "loop"
    /\ UNCHANGED << fn, acc, yielded, transmitted, delivered, fcode, fstatus, active,
                    workerHeld, notFact >>

\* Time passes otherwise (transport, scheduling, queueing for a worker).
Tick ==
    /\ fpc \notin {"idle", "done"}
    /\ fstatus = "NONE" /\ clock < DeadlineTicks
    /\ clock' = clock + 1
    /\ UNCHANGED << fn, fpc, acc, fk, yielded, transmitted, delivered, fcode, fstatus, active,
                    workerHeld, notFact >>

\* timeout=TIMEOUT_SEC elapses before the call has ended: the caller gets
\* DEADLINE_EXCEEDED (client.py:117-118).
Deadline ==
    /\ fpc \notin {"idle", "done"}
    /\ fstatus = "NONE" /\ clock = DeadlineTicks
    /\ fstatus' = "DEADLINE_EXCEEDED"
    /\ UNCHANGED << fn, fpc, acc, fk, yielded, transmitted, delivered, fcode,
                    active, clock, workerHeld, notFact >>

\* The server's timer for the deadline fires, no earlier than the caller's:
\* the server sees the RPC inactive.
DeadlineServer ==
    /\ active /\ fstatus = "DEADLINE_EXCEEDED"
    /\ active' = FALSE
    /\ UNCHANGED << fn, fpc, acc, fk, yielded, transmitted, delivered, fcode,
                    fstatus, clock, workerHeld, notFact >>

\* The caller cancels the stream (Ctrl-C in the for loop leaves the channel's
\* with block, client.py:42, 123-124).
Cancel ==
    /\ fpc \notin {"idle", "done"}
    /\ fstatus = "NONE"
    /\ fstatus' = "CANCELLED"
    /\ UNCHANGED << fn, fpc, acc, fk, yielded, transmitted, delivered, fcode,
                    active, clock, workerHeld, notFact >>

\* The cancellation reaches the server: it sees the RPC inactive.
CancelArrives ==
    /\ active /\ fstatus = "CANCELLED"
    /\ active' = FALSE
    /\ UNCHANGED << fn, fpc, acc, fk, yielded, transmitted, delivered, fcode,
                    fstatus, clock, workerHeld, notFact >>

FactInit == UnaryIdle /\ FactIdle /\ StatsIdle /\ PoolIdle /\ ServeIdle

FactNext ==
    \/ \E n \in FieldInts : FactCall(n)
    \/ FactorialEnter
    \/ FactorialLoop
    \/ Transmit
    \/ Resume
    \/ Sleep
    \/ Tick
    \/ Deadline
    \/ DeadlineServer
    \/ Cancel
    \/ CancelArrives

FactorialSpec == FactInit /\ [][FactNext]_vars

\* The worker thread runs the handler, timers fire and a cancellation sent
\* arrives.
FactFairness ==
    /\ WF_vars(FactorialEnter)
    /\ WF_vars(FactorialLoop)
    /\ WF_vars(Transmit)
    /\ WF_vars(Resume)
    /\ WF_vars(Sleep)
    /\ WF_vars(Deadline)
    /\ WF_vars(DeadlineServer)
    /\ WF_vars(CancelArrives)

FairFactorialSpec == FactorialSpec /\ FactFairness

(***************************************************************************)
(* Properties of the Factorial stream.                                     *)
(***************************************************************************)
RECURSIVE Fact(_)
Fact(k) == IF k = 0 THEN 1 ELSE k * Fact(k - 1)

\* s holds the steps 0, 1, 2, ... in order, each with accumulator = step!.
IsFactorialPrefix(s) ==
    \A i \in 1..Len(s) : s[i].step = i - 1 /\ s[i].accumulator = Fact(i - 1)

Interrupted == fstatus \in {"CANCELLED", "DEADLINE_EXCEEDED"}

\* C3: a Factorial(n) call with n >= 0 that is neither cancelled nor timed
\* out delivers exactly the n + 1 elements (k, k!) for k = 0..n in order and
\* then ends normally; at every point what has been delivered is a prefix of
\* that sequence.
FactorialStreamContract ==
    (fpc # "idle" /\ fn >= 0) =>
        /\ IsFactorialPrefix(delivered)
        /\ Len(delivered) <= fn + 1
        /\ (fpc = "done" /\ ~Interrupted) =>
               (fstatus = "OK" /\ Len(delivered) = fn + 1)

\* The number of elements Factorial(n) yields before an accumulator leaves
\* the field's range: n + 1 if none does.
RECURSIVE Representable(_, _, _)
Representable(n, k, a) ==
    IF k > n THEN k
    ELSE IF a * k > IntMax THEN k
    ELSE Representable(n, k + 1, a * k)

\* What the stream does hold to: the elements delivered are always a prefix
\* of the factorial sequence, and an uninterrupted call delivers all n + 1
\* of them and ends OK exactly when n! fits the accumulator field; when it
\* does not, the call ends UNKNOWN after the last element that fits.
FactorialWhenRepresentable ==
    (fpc # "idle" /\ fn >= 0) =>
        /\ IsFactorialPrefix(delivered)
        /\ Len(delivered) <= fn + 1
        /\ (fpc = "done" /\ ~Interrupted) =>
               /\ Len(delivered) = Representable(fn, 1, 1)
               /\ fstatus = IF Len(delivered) = fn + 1 THEN "OK" ELSE "UNKNOWN"

\* C4: a Factorial(n) call with n < 0 yields and delivers no element, at any
\* time, and its handler ends with INVALID_ARGUMENT.
NegativeFactorialFails ==
    (fpc # "idle" /\ fn < 0) =>
        /\ yielded = << >>
        /\ delivered = << >>
        /\ fcode \in {"NONE", "INVALID_ARGUMENT"}
        /\ fstatus # "OK"
        /\ (fpc = "done" => fcode = "INVALID_ARGUMENT")
        /\ (fpc = "done" /\ ~Interrupted => fstatus = "INVALID_ARGUMENT")

\* C4 witness: a Factorial(n < 0) call that the caller saw fail.
NegativeFactorialFailed ==
    /\ fn < 0 /\ fpc = "done"
    /\ fstatus = "INVALID_ARGUMENT" /\ yielded = << >>

IsPrefix(s, t) == Len(s) <= Len(t) /\ \A i \in 1..Len(s) : s[i] = t[i]

\* C8 as stated: once the caller has cancelled or its deadline has elapsed,
\* the generator yields no further element; what was delivered stays
\* delivered, in order and once each; the caller's outcome stays CANCELLED or
\* DEADLINE_EXCEEDED and never becomes a normal completion; and the worker
\* is eventually released.
CancelStopsEmission ==
    /\ [][Interrupted => yielded' = yielded]_vars
    /\ [][Interrupted => delivered' = delivered]_vars
    /\ [][IsPrefix(delivered, delivered')]_vars
    /\ [](\A i \in 1..Len(delivered) : delivered[i].step = i - 1)
    /\ [][Interrupted => fstatus' = fstatus]_vars
    /\ (Interrupted ~> ~workerHeld)

\* C8, amended: once the caller has cancelled or its deadline has elapsed, no
\* further element is delivered to it; the server goes on yielding and
\* sending until it sees the RPC inactive, and from then on sends nothing and
\* yields at most the one element the generator was already computing, which
\* is dropped; what was delivered stays delivered, in order and once each;
\* the caller's outcome stays CANCELLED or DEADLINE_EXCEEDED and never becomes
\* a normal completion; and the worker is eventually released.
CancelStopsStream ==
    /\ [][Interrupted => delivered' = delivered]_vars
    /\ [][~active => transmitted' = transmitted]_vars
    /\ [][~active /\ Len(yielded) > Len(transmitted) => yielded' = yielded]_vars
    /\ [][IsPrefix(delivered, delivered')]_vars
    /\ [](/\ IsPrefix(delivered, transmitted)
          /\ IsPrefix(transmitted, yielded)
          /\ Len(yielded) <= Len(transmitted) + 1
          /\ \A i \in 1..Len(delivered) : delivered[i].step = i - 1)
    /\ [][Interrupted => fstatus' = fstatus]_vars
    /\ (Interrupted ~> ~workerHeld)

\* C8 witness: a stream cancelled after k elements, 1 <= k < n + 1, whose
\* worker has been released.
CancelledMidStream ==
    /\ fstatus = "CANCELLED" /\ fpc = "done" /\ ~workerHeld
    /\ Len(delivered) >= 1 /\ Len(delivered) < fn + 1

\* A stream whose server yielded and sent elements the cancelled caller never
\* received.
EmittedAfterCancel ==
    /\ fstatus = "CANCELLED"
    /\ Len(transmitted) > Len(delivered)

\* The same for the deadline.
ExpiredMidStream ==
    /\ fstatus = "DEADLINE_EXCEEDED" /\ fpc = "done" /\ ~workerHeld
    /\ Len(delivered) >= 1 /\ Len(delivered) < fn + 1

(***************************************************************************)
(* StatsSpec: StatsServicer.DescriptiveStats and a caller that writes      *)
(* samples to the request stream and then closes it.                       *)
(*                                                                         *)
(* statistics.mean and statistics.variance compute in exact rational       *)
(* arithmetic and convert the result to a float at the end: the conversion *)
(* raises OverflowError when the result is beyond the largest finite       *)
(* float.  A float is modelled by the exact rational it stands for, in     *)
(* lowest terms (rounding is left out), and the range of the floats is     *)
(* scaled down to -FloatMax..FloatMax; samples are the integers in it.     *)
(***************************************************************************)
RECURSIVE GCD(_, _)
GCD(a, b) == IF b = 0 THEN a ELSE GCD(b, a % b)

\* The rational n / d (d > 0) in lowest terms.
Rat(n, d) ==
    LET g == GCD(IF n < 0 THEN -n ELSE n, d)
    IN  [num |-> n \div g, den |-> d \div g]

RECURSIVE SumSeq(_)
SumSeq(s) == IF s = << >> THEN 0 ELSE s[1] + SumSeq(Tail(s))

RECURSIVE SumSqSeq(_)
SumSqSeq(s) == IF s = << >> THEN 0 ELSE s[1] * s[1] + SumSqSeq(Tail(s))

\* The conversion of an exact result to a float.
ToFloat(r) ==
    IF r.num > FloatMax * r.den \/ -r.num > FloatMax * r.den
    THEN [kind |-> "OverflowError", num |-> 0, den |-> 1]
    ELSE [kind |-> "float", num |-> r.num, den |-> r.den]

\* st.mean(vals), vals not empty
StMean(s) == ToFloat(Rat(SumSeq(s), Len(s)))

\* st.variance(vals), len(vals) > 1: the sum of squared deviations from the
\* mean over len(vals) - 1.
StVariance(s) ==
    ToFloat(Rat(Len(s) * SumSqSeq(s) - SumSeq(s) * SumSeq(s),
                Len(s) * (Len(s) - 1)))

\* 0.0
FloatZero == [kind |-> "float", num |-> 0, den |-> 1]

\* pb.StatsReply(mean=m, variance=v), m and v computed before it: an
\* exception raised while computing them leaves no reply.
StatsReply(m, v) ==
    IF m.kind # "float" THEN [kind |-> "raise", exc |-> m.kind]
    ELSE IF v.kind # "float" THEN [kind |-> "raise", exc |-> v.kind]
    ELSE [kind |-> "StatsReply", mean |-> m, variance |-> v]

Samples == (-FloatMax)..FloatMax

\* The caller opens the call; a worker enters the handler (vals = []).
StatsCall ==
    /\ spc = "idle"
    /\ spc' = "recv"
    /\ vals' = << >>
    /\ UNCHANGED << sent, closed, sstatus, sreply, notStats >>

\* The caller writes one SampleValue to the request stream.
Send(v) ==
    /\ spc # "idle" /\ ~closed
    /\ Len(sent) < MaxSamples
    /\ sent' = Append(sent, v)
    /\ UNCHANGED << closed, vals, spc, sstatus, sreply, notStats >>

\* The caller signals end-of-input.
CloseInput ==
    /\ spc # "idle" /\ ~closed
    /\ closed' = TRUE
    /\ UNCHANGED << sent, vals, spc, sstatus, sreply, notStats >>

\* DescriptiveStats, lines 119-121: one iteration of for val in req_iter.
Receive ==
    /\ spc = "recv"
    /\ Len(vals) < Len(sent)
    /\ vals' = Append(vals, sent[Len(vals) + 1])
    /\ UNCHANGED << sent, closed, spc, sstatus, sreply, notStats >>

\* DescriptiveStats, lines 119 and 123-131: req_iter is exhausted (the caller
\* closed the stream and every sample was read), then the empty check, the
\* statistics and the reply.
Summarise ==
    /\ spc = "recv"
    /\ closed /\ Len(vals) = Len(sent)
    /\ spc' = "done"
    /\ IF vals = << >>
       THEN sstatus' = "INVALID_ARGUMENT" /\ sreply' = NoReply
       ELSE LET res == StatsReply(StMean(vals),
                                  IF Len(vals) > 1 THEN StVariance(vals)
                                  ELSE FloatZero)
            IN  IF res.kind = "raise"
                THEN sstatus' = "UNKNOWN" /\ sreply' = NoReply
                ELSE sstatus' = "OK" /\ sreply' = res
    /\ UNCHANGED << sent, closed, vals, notStats >>

StatsInit == UnaryIdle /\ FactIdle /\ StatsIdle /\ PoolIdle /\ ServeIdle

StatsNext ==
    \/ StatsCall
    \/ \E v \in Samples : Send(v)
    \/ CloseInput
    \/ Receive
    \/ Summarise

StatsSpec == StatsInit /\ [][StatsNext]_vars

\* The mean and the sample variance of s, stated on the reply r without
\* division: r.mean * n = sum, r.variance * n^2 (n - 1) = sum of the squares
\* of (n x - sum); variance 0 for a single sample.
IsStatsOf(r, s) ==
    LET n == Len(s)
        S == SumSeq(s)
        dev2 == [i \in 1..n |-> (n * s[i] - S) * (n * s[i] - S)]
    IN  /\ r.kind = "StatsReply"
        /\ r.mean.den > 0 /\ r.variance.den > 0
        /\ r.mean.num * n = S * r.mean.den
        /\ IF n = 1
           THEN r.variance.num = 0
           ELSE r.variance.num * (n * n * (n - 1)) = SumSeq(dev2) * r.variance.den

\* C5: DescriptiveStats produces neither a reply nor a failure while the
\* caller is still sending; once the input has ended it produces one
\* outcome: INVALID_ARGUMENT and no reply if no sample was sent, otherwise
\* one StatsReply whose mean and sample variance are those of all the
\* samples sent (variance exactly 0 for a single sample).
StatsOneTerminalOutcome ==
    /\ ~closed => (sstatus = "NONE" /\ sreply = NoReply)
    /\ spc # "done" => (sstatus = "NONE" /\ sreply = NoReply)
    /\ spc = "done" =>
           IF sent = << >>
           THEN sstatus = "INVALID_ARGUMENT" /\ sreply = NoReply
           ELSE sstatus = "OK" /\ IsStatsOf(sreply, sent)

\* The sample variance of s is beyond the largest float.
VarianceOverflows(s) ==
    /\ Len(s) > 1
    /\ Len(s) * SumSqSeq(s) - SumSeq(s) * SumSeq(s) > FloatMax * Len(s) * (Len(s) - 1)

\* What DescriptiveStats does hold to: nothing before the end of the input,
\* then one outcome that never changes: INVALID_ARGUMENT for no sample,
\* UNKNOWN and no reply when the variance is beyond the largest float,
\* otherwise the reply with the mean and variance of all the samples.
StatsWhenRepresentable ==
    /\ [](~closed => (sstatus = "NONE" /\ sreply = NoReply))
    /\ [](spc # "done" => (sstatus = "NONE" /\ sreply = NoReply))
    /\ [](spc = "done" =>
            IF sent = << >>
            THEN sstatus = "INVALID_ARGUMENT" /\ sreply = NoReply
            ELSE IF VarianceOverflows(sent)
            THEN sstatus = "UNKNOWN" /\ sreply = NoReply
            ELSE sstatus = "OK" /\ IsStatsOf(sreply, sent))
    /\ [][spc = "done" => (sstatus' = sstatus /\ sreply' = sreply)]_vars

(***************************************************************************)
(* PoolSpec: grpc.server(futures.ThreadPoolExecutor(max_workers=8)) with   *)
(* the two servicers, serving NumCalls calls of independent callers.       *)
(*                                                                         *)
(* The server submits every incoming call to the executor, one after the   *)
(* other, from its serving thread (no maximum_concurrent_rpcs is given, so *)
(* none is refused).  ThreadPoolExecutor.submit() puts the work item on    *)
(* the work queue and then adjusts the thread count: it takes the idle     *)
(* semaphore if it can; otherwise, unless max_workers threads are          *)
(* registered, it starts a thread and then registers it.  A thread takes   *)
(* an item from the queue, runs it to the end of its handler (for a        *)
(* stream, to the end of the stream), then releases the idle semaphore and *)
(* goes back to the queue.                                                 *)
(*                                                                         *)
(* Neither threads nor calls have an identity in the program.  The model   *)
(* counts them: the work items queued, the threads, the handlers in each   *)
(* handler state.  The work item reads the request message when it runs,   *)
(* so the request of a call enters the model when a thread starts its      *)
(* handler.  A DescriptiveStats handler waits for its caller: for the next *)
(* sample or for the end of the input.                                     *)
(***************************************************************************)
\* Threads that run: those registered and the one started and not yet
\* registered.
LiveThreads == threads + (IF submitPc = "add" THEN 1 ELSE 0)

\* The server submits a call: submit() puts the work item on the queue.
PoolSubmit ==
    /\ submitPc = "idle"
    /\ arrived < NumCalls
    /\ arrived' = arrived + 1
    /\ queue' = queue + 1
    /\ submitPc' = "adjust"
    /\ UNCHANGED << threads, idleSem, busy, running, returned, finished,
                    interfered, notPool >>

\* submit() goes on to _adjust_thread_count(): it takes the idle semaphore,
\* or starts a thread if fewer than max_workers are registered.
PoolAdjust ==
    /\ submitPc = "adjust"
    /\ IF idleSem > 0
       THEN idleSem' = idleSem - 1 /\ submitPc' = "idle"
       ELSE /\ idleSem' = idleSem
            /\ submitPc' = IF threads < MaxWorkers THEN "add" ELSE "idle"
    /\ UNCHANGED << arrived, queue, threads, busy, running, returned, finished,
                    interfered, notPool >>

\* _adjust_thread_count() registers the thread it started: _threads.add(t).
PoolAddThread ==
    /\ submitPc = "add"
    /\ threads' = threads + 1
    /\ submitPc' = "idle"
    /\ UNCHANGED << arrived, queue, idleSem, busy, running, returned, finished,
                    interfered, notPool >>

\* A thread that holds no work item takes one from the queue, reads its
\* request r and enters the handler.
PoolStart(r) ==
    /\ queue > 0
    /\ busy < LiveThreads
    /\ queue' = queue - 1
    /\ busy' = busy + 1
    /\ running' = [running EXCEPT ![[req |-> r, prog |-> 0]] = @ + 1]
    /\ UNCHANGED << arrived, submitPc, threads, idleSem, returned, finished,
                    interfered, notPool >>

\* The k-th element of the Factorial stream.
PoolElement(k) == FactorialStepMsg(k, Fact(k))

\* The handler in state h is at its end: Add always; Factorial when n is
\* negative, when the loop is over, or when its next element cannot be
\* constructed; DescriptiveStats when its caller ends the input.
PoolAtEnd(h) ==
    IF IsStats(h.req) THEN TRUE
    ELSE IF ~IsStream(h.req) THEN TRUE
    ELSE IF h.req.n < 0 THEN TRUE
    ELSE IF h.prog = h.req.n + 1 THEN TRUE
    ELSE PoolElement(h.prog).kind = "raise"

\* The message m, or the end of the call with the status code, is what
\* the handler of request r sends: an Add ends OK with the sum when the sum
\* fits the field and UNKNOWN without a message when it does not; a Factorial
\* sends steps k, k! for k up to n, ends INVALID_ARGUMENT when n is negative
\* and OK otherwise (UNKNOWN when n! does not fit the field); a
\* DescriptiveStats over samples of the value v ends INVALID_ARGUMENT without
\* a message, or OK with the mean v and the variance 0.
SentIsOwn(r, code, m) ==
    IF r.kind = "BinaryRequest"
    THEN IF r.x + r.y \in FieldInts
         THEN /\ code = "OK"
              /\ m = [kind |-> "BinaryReply", result |-> r.x + r.y]
         ELSE code = "UNKNOWN" /\ m = NoReply
    ELSE IF r.kind = "SampleValues"
    THEN IF code = "OK"
         THEN /\ m.kind = "StatsReply"
              /\ m.mean = [kind |-> "float", num |-> r.v, den |-> 1]
              /\ m.variance = FloatZero
         ELSE code = "INVALID_ARGUMENT" /\ m = NoReply
    ELSE IF code = "NONE"
    THEN /\ m.kind = "FactorialStep"
         /\ m.step \in 0..r.n
         /\ m.accumulator = Fact(m.step)
    ELSE /\ m = NoReply
         /\ code = (IF r.n < 0 THEN "INVALID_ARGUMENT"
                      ELSE IF Fact(r.n) \in FieldInts THEN "OK"
                      ELSE "UNKNOWN")

\* A Factorial handler constructs and yields its next element, on its
\* thread.
PoolEmit(h) ==
    /\ running[h] > 0
    /\ IsStream(h.req)
    /\ ~PoolAtEnd(h)
    /\ running' = [running EXCEPT ![h] = @ - 1,
                                  ![[req |-> h.req, prog |-> h.prog + 1]] = @ + 1]
    /\ interfered' = (interfered \/ ~SentIsOwn(h.req, "NONE", PoolElement(h.prog)))
    /\ UNCHANGED << arrived, queue, submitPc, threads, idleSem, busy,
                    returned, finished, notPool >>

\* A DescriptiveStats handler gets the next sample from its caller and
\* appends it to vals.
PoolReceive(h) ==
    /\ running[h] > 0
    /\ IsStats(h.req)
    /\ h.prog < PoolMaxSamples
    /\ running' = [running EXCEPT ![h] = @ - 1,
                                  ![[req |-> h.req, prog |-> h.prog + 1]] = @ + 1]
    /\ UNCHANGED << arrived, queue, submitPc, threads, idleSem, busy,
                    returned, finished, interfered, notPool >>

\* What Add returns for a request.
PoolResult(r) == BinaryReply(PyInt(r.x + r.y))

\* The samples a DescriptiveStats handler in state h has read.
PoolVals(h) == [i \in 1..h.prog |-> h.req.v]

\* What DescriptiveStats returns for the samples s.
PoolStats(s) ==
    StatsReply(StMean(s), IF Len(s) > 1 THEN StVariance(s) ELSE FloatZero)

\* How the call of a handler in state h ends: the status, and the message
\* sent with it.
PoolEnd(h) ==
    IF IsStats(h.req)
    THEN IF h.prog = 0
         THEN [status |-> "INVALID_ARGUMENT", msg |-> NoReply]
         ELSE IF PoolStats(PoolVals(h)).kind = "raise"
         THEN [status |-> "UNKNOWN", msg |-> NoReply]
         ELSE [status |-> "OK", msg |-> PoolStats(PoolVals(h))]
    ELSE IF ~IsStream(h.req)
    THEN IF PoolResult(h.req).kind = "raise"
         THEN [status |-> "UNKNOWN", msg |-> NoReply]
         ELSE [status |-> "OK", msg |-> PoolResult(h.req)]
    ELSE IF h.req.n < 0
    THEN [status |-> "INVALID_ARGUMENT", msg |-> NoReply]
    ELSE IF h.prog = h.req.n + 1
    THEN [status |-> "OK", msg |-> NoReply]
    ELSE [status |-> "UNKNOWN", msg |-> NoReply]

\* Handlers that keep the request in a field of the shared servicer object:
\* a handler may end as the handler of another running call would (mutant of
\* PoolReturn).
PoolReturnShared(h) ==
    /\ running[h] > 0
    /\ PoolAtEnd(h)
    /\ running' = [running EXCEPT ![h] = @ - 1]
    /\ returned' = returned + 1
    /\ \E d \in PoolHandlers :
          /\ running[d] > 0
          /\ interfered' = (interfered \/
                             ~SentIsOwn(h.req, PoolEnd(d).status, PoolEnd(d).msg))
    /\ UNCHANGED << arrived, queue, submitPc, threads, idleSem, busy,
                    finished, notPool >>

\* A handler is over: Add returns its reply or raises; Factorial aborts,
\* raises or ends its stream; DescriptiveStats, its caller having ended the
\* input, aborts, raises or returns its reply.  The call ends with the
\* handler's status; the thread still holds the work item.  Handlers read
\* their own request only: the servicers have no fields.
PoolReturn(h) ==
    /\ running[h] > 0
    /\ PoolAtEnd(h)
    /\ running' = [running EXCEPT ![h] = @ - 1]
    /\ returned' = returned + 1
    /\ interfered' = (interfered \/
                       ~SentIsOwn(h.req, PoolEnd(h).status, PoolEnd(h).msg))
    /\ UNCHANGED << arrived, queue, submitPc, threads, idleSem, busy,
                    finished, notPool >>

\* The work item is done: its thread releases the idle semaphore and goes
\* back to the queue.
PoolRelease ==
    /\ returned > 0
    /\ returned' = returned - 1
    /\ idleSem' = idleSem + 1
    /\ busy' = busy - 1
    /\ finished' = finished + 1
    /\ UNCHANGED << arrived, queue, submitPc, threads, running, interfered, notPool >>

PoolInit == UnaryIdle /\ FactIdle /\ StatsIdle /\ PoolIdle /\ ServeIdle

PoolNext ==
    \/ PoolSubmit
    \/ PoolAdjust
    \/ PoolAddThread
    \/ \E r \in PoolRequests : PoolStart(r)
    \/ \E h \in PoolHandlers : PoolEmit(h)
    \/ \E h \in PoolHandlers : PoolReceive(h)
    \/ \E h \in PoolHandlers : PoolReturn(h)
    \/ PoolRelease

PoolSpec == PoolInit /\ [][PoolNext]_vars

\* The handlers that do not wait for their caller.
PoolOwnPace == { h \in PoolHandlers : ~IsStats(h.req) }

\* The threads of the server run: the serving thread completes a submit, a
\* thread without a work item takes a queued one, a handler that does not
\* wait for its caller takes its next step, a thread whose handler is over
\* releases.  Nothing is assumed of the callers.
PoolFairness ==
    WF_poolVars(\/ PoolAdjust
                \/ PoolAddThread
                \/ (\E r \in PoolRequests : PoolStart(r))
                \/ (\E h \in PoolOwnPace : PoolEmit(h) \/ PoolReturn(h))
                \/ PoolRelease)

FairPoolSpec == PoolSpec /\ PoolFairness

\* The handlers that are running.
NumRunning ==
    Cardinality({ p \in PoolHandlers \X (1..NumCalls) : p[2] <= running[p[1]] })

\* Each of the max_workers threads holds a handler that waits for its caller.
PoolHeldByCallers ==
    /\ busy = MaxWorkers
    /\ returned = 0
    /\ \A h \in PoolOwnPace : running[h] = 0

\* C9: with 8 workers and more than 8 calls, at most 8 handlers run at any
\* time (each on a thread of the pool, of which there are at most 8); no call
\* is refused or lost (every call submitted is queued, on a thread or done);
\* a handler stays on its thread until it is over, a stream through all its
\* elements in order, and the thread is free again only after that; the
\* queue is emptied again and again unless all 8 threads are held by
\* handlers that wait for their callers, so every queued call gets a thread
\* once running calls finish; and what a handler sends, and the status its call
\* ends with, are those of its own request.
PoolQueuesWithoutInterference ==
    /\ [](/\ NumRunning + returned = busy
          /\ busy <= LiveThreads
          /\ LiveThreads <= MaxWorkers)
    /\ [](arrived = queue + busy + finished)
    /\ [](~interfered)
    /\ [][/\ busy' < busy => (returned' = returned - 1 /\ running' = running)
          /\ \A h \in PoolHandlers :
                running'[h] < running[h] =>
                   \/ /\ returned' = returned
                      /\ h.prog < (IF IsStats(h.req) THEN PoolMaxSamples
                                   ELSE h.req.n + 1)
                      /\ running'[[req |-> h.req, prog |-> h.prog + 1]] =
                            running[[req |-> h.req, prog |-> h.prog + 1]] + 1
                   \/ /\ returned' = returned + 1
                      /\ (IsStream(h.req) /\ h.req.n >= 0 /\ h.prog <= h.req.n) =>
                            PoolElement(h.prog).kind = "raise"]_vars
    /\ []<>(queue = 0 \/ PoolHeldByCallers)

\* C9 witness: all 8 workers run a handler, one of them a stream that has
\* emitted an element and has more to emit, while a call waits in the queue.
PoolFullWithWaitingCall ==
    /\ NumRunning = MaxWorkers
    /\ queue > 0
    /\ \E h \in PoolHandlers :
          IsStream(h.req) /\ h.prog = 1 /\ h.req.n >= 1 /\ running[h] > 0

\* Every call has been served, the last one after waiting.
PoolAllServed == finished = NumCalls

\* Calls wait in the queue while every thread is held by a DescriptiveStats
\* handler whose caller has not ended its input.
PoolWaitsForCallers == queue > 0 /\ PoolHeldByCallers

(***************************************************************************)
(* ServeSpec: serve(), with NumSlots calls that may be in flight.          *)
(*                                                                         *)
(* server.stop(grace) stops the server from accepting calls, starts the    *)
(* grace period and returns at once (it hands back an event that is set    *)
(* when the server has stopped; serve() does not wait on it).  At the end  *)
(* of the grace period the calls still running are aborted.  serve()       *)
(* calls stop() in its handler of KeyboardInterrupt and nowhere else, and  *)
(* the handler covers wait_for_termination() only: Ctrl-C at any other     *)
(* line leaves serve() with the exception.  wait_for_termination() does    *)
(* not return by itself: nothing but line 149 stops the server.            *)
(***************************************************************************)
\* serve, lines 137-141: the server is created, the servicers and the port
\* are added.
ServeCreate ==
    /\ servePc = "init"
    /\ servePc' = "created"
    /\ UNCHANGED << accepting, inflight, graceLeft, closedSaid, notServe >>

\* serve, line 142: server.start(); calls are accepted from here on.
ServeStart ==
    /\ servePc = "created"
    /\ servePc' = "started"
    /\ accepting' = TRUE
    /\ UNCHANGED << inflight, graceLeft, closedSaid, notServe >>

\* serve, line 143: print("gRPC server listening ...").
SayListening ==
    /\ servePc = "started"
    /\ servePc' = "listening"
    /\ UNCHANGED << accepting, inflight, graceLeft, closedSaid, notServe >>

\* serve, lines 145-146: the try is entered and wait_for_termination()
\* blocks.
ServeWait ==
    /\ servePc = "listening"
    /\ servePc' = "serving"
    /\ UNCHANGED << accepting, inflight, graceLeft, closedSaid, notServe >>

\* A call arrives while the server accepts calls and a handler starts.
CallArrives(s) ==
    /\ accepting
    /\ inflight[s] = "free"
    /\ inflight' = [inflight EXCEPT ![s] = "running"]
    /\ UNCHANGED << servePc, accepting, graceLeft, closedSaid, notServe >>

\* The handler of a call in flight returns.
CallFinishes(s) ==
    /\ inflight[s] = "running"
    /\ inflight' = [inflight EXCEPT ![s] = "finished"]
    /\ UNCHANGED << servePc, accepting, graceLeft, closedSaid, notServe >>

\* serve, lines 147-148: Ctrl-C ends wait_for_termination and is caught;
\* "Shutting down gracefully" is printed.
KeyboardInterrupt ==
    /\ servePc = "serving"
    /\ servePc' = "except"
    /\ UNCHANGED << accepting, inflight, graceLeft, closedSaid, notServe >>

\* Ctrl-C at a line outside the try (137-143, or 148-150 inside the
\* handler, up to the return of serve(), the text of line 150 already
\* written or not): serve() ends with KeyboardInterrupt, the rest of it is
\* not run.
KeyboardInterruptEscapes ==
    /\ servePc \in {"init", "created", "started", "listening", "except",
                    "stopping", "closed"}
    /\ servePc' = "raised"
    /\ UNCHANGED << accepting, inflight, graceLeft, closedSaid, notServe >>

\* serve, line 149: server.stop(grace=5) returns without waiting.
Stop ==
    /\ servePc = "except"
    /\ accepting' = FALSE
    /\ graceLeft' = GraceSec
    /\ servePc' = "stopping"
    /\ UNCHANGED << inflight, closedSaid, notServe >>

\* serve, line 150: print("Server closed.") writes its text.
SayClosed ==
    /\ servePc = "stopping"
    /\ closedSaid' = TRUE
    /\ servePc' = "closed"
    /\ UNCHANGED << accepting, inflight, graceLeft, notServe >>

\* serve, line 150: print returns and serve() returns after it.
ServeReturn ==
    /\ servePc = "closed"
    /\ servePc' = "returned"
    /\ UNCHANGED << accepting, inflight, graceLeft, closedSaid, notServe >>

\* One second of the grace period passes.
GraceTick ==
    /\ graceLeft > 0
    /\ graceLeft' = graceLeft - 1
    /\ UNCHANGED << servePc, accepting, inflight, closedSaid, notServe >>

\* The grace period is over: the calls still running are aborted.
GraceExpires ==
    /\ graceLeft = 0
    /\ graceLeft' = -2
    /\ inflight' = [s \in Slots |-> IF inflight[s] = "running" THEN "killed"
                                    ELSE inflight[s]]
    /\ UNCHANGED << servePc, accepting, closedSaid, notServe >>

ServeInit == UnaryIdle /\ FactIdle /\ StatsIdle /\ PoolIdle /\ ServeIdle

ServeNext ==
    \/ ServeCreate
    \/ ServeStart
    \/ SayListening
    \/ ServeWait
    \/ \E s \in Slots : CallArrives(s)
    \/ \E s \in Slots : CallFinishes(s)
    \/ KeyboardInterrupt
    \/ KeyboardInterruptEscapes
    \/ Stop
    \/ SayClosed
    \/ ServeReturn
    \/ GraceTick
    \/ GraceExpires

ServeSpec == ServeInit /\ [][ServeNext]_vars

\* C10: whenever serve() ends, the server has stopped accepting calls; it
\* stops accepting before the grace period runs, a call in flight is
\* force-terminated only when the grace period of 5 s is over, and serve()
\* neither prints "Server closed." nor returns while a call in flight is
\* still running within its grace period.
ShutdownDrains ==
    /\ servePc \in {"returned", "raised"} => ~accepting
    /\ graceLeft # -1 => ~accepting
    /\ \A s \in Slots : inflight[s] = "killed" => graceLeft = -2
    /\ (closedSaid \/ servePc = "returned") =>
           \A s \in Slots : inflight[s] # "running"

\* What serve() does hold to on a Ctrl-C it catches: stop() is called
\* before "Server closed." is printed, no call is accepted from then on, and
\* a call in flight is aborted only once the 5 s are over.
KeyboardInterruptStops ==
    /\ graceLeft # -1 => ~accepting
    /\ closedSaid => (~accepting /\ graceLeft # -1)
    /\ \A s \in Slots : inflight[s] = "killed" => graceLeft = -2

\* serve() has returned after "Server closed." with a call still running
\* within the grace period.
ClosedWhileCallRuns ==
    /\ servePc = "returned"
    /\ closedSaid
    /\ graceLeft > 0
    /\ \E s \in Slots : inflight[s] = "running"

\* serve() was left by a Ctrl-C after "Server closed." was written, with a
\* call still running within the grace period.
RaisedAfterClosed ==
    /\ servePc = "raised"
    /\ closedSaid
    /\ graceLeft > 0
    /\ \E s \in Slots : inflight[s] = "running"

\* serve() was left by a Ctrl-C outside the try: the server accepts calls
\* and stop() was never called.
LeftWithoutStop ==
    /\ servePc = "raised"
    /\ accepting
    /\ graceLeft = -1

====
